---- MODULE Spec2Model ----
(***************************************************************************)
(* Price-prediction core of the car-dealer CRM:                            *)
(*   server/ml/predict_realistic.py  - heuristic predictor                 *)
(*   server/ml/predict_quantiles.py  - learned (quantile model) predictor  *)
(*   server/ml/train_quantiles.py    - trainer writing the model artifact  *)
(*                                                                         *)
(* Arithmetic is exact fixed point instead of binary floating point:       *)
(* prices are kept in tenths, probabilities as exact fractions that are    *)
(* rounded to cents at the place where the code calls round(., 2).         *)
(***************************************************************************)
EXTENDS Integers, Sequences, FiniteSets, TLC

VARIABLES
    pc,        \* position of the predictor process: "stdin", "read", "realistic", "quantiles"
    payload,   \* the mapping parsed from stdin
    h_env,     \* predict_realistic.py: age, base_price, estimated_price (tenths)
    h_result,  \* predict_realistic.py: result, or the exception that ended the script
    features,  \* predict_quantiles.py: model['features']
    X,         \* predict_quantiles.py: the single row handed to the regressors
    q_result,  \* predict_quantiles.py: result, or the exception that ended the script
    file,      \* ./ml/model_lgbm_quantiles.pkl: the chunks on disk, in order
    run,       \* train_quantiles.py: number of the execution under way
    tpc,       \* train_quantiles.py: position of the script
    t_df,      \* train_quantiles.py: df, the records read
    t_X,       \* train_quantiles.py: X = df[features].fillna(0)
    t_train,   \* train_quantiles.py: the rows of X that make X_train
    m_p10,     \* train_quantiles.py: m_p10
    m_p50,     \* train_quantiles.py: m_p50
    m_p90,     \* train_quantiles.py: m_p90
    lpc,       \* predict_quantiles.py: position of joblib.load
    l_buf      \* predict_quantiles.py: the chunks joblib.load has read

predVars == <<pc, payload, h_env, h_result, features, X, q_result>>
trainVars == <<file, run, tpc, t_df, t_X, t_train, m_p10, m_p50, m_p90>>
loadVars == <<lpc, l_buf>>
vars == <<predVars, trainVars, loadVars>>

-----------------------------------------------------------------------------
(* Bounds of the model *)

MinYear == 2010
MaxYear == 2026
MaxEquip == 2
MaxRecords == 3
MaxRuns == 2

-----------------------------------------------------------------------------
(* JSON values as Python sees them after json.loads *)

IntV(i) == [t |-> "int", i |-> i]
StrV(s) == [t |-> "str", s |-> s]
ListV(n) == [t |-> "list", n |-> n]
Null == [t |-> "null"]
NaN == [t |-> "nan"]
FloatV(n, d) == [t |-> "float", n |-> n, d |-> d]
Absent == [t |-> "absent"]

IsInt(v) == v.t = "int"
IsStr(v) == v.t = "str"

Min(a, b) == IF b < a THEN b ELSE a
Max(a, b) == IF b > a THEN b ELSE a
Abs(a) == IF a < 0 THEN -a ELSE a

\* dict.get(key, default)
Get(p, k, d) == IF k \in DOMAIN p THEN p[k] ELSE d

\* the mapping that holds exactly the keys whose choice is not Absent
PayloadOf(c) == [k \in {k \in DOMAIN c : c[k] # Absent} |-> c[k]]

-----------------------------------------------------------------------------
(* predict_realistic.py *)

RefYear == 2025
DefaultYear == 2018
DefaultKm == 100000
ExpectedKmPerYear == 12000
MinPrice == 30000
MaxPrice == 500000

NoResult == [status |-> "none"]
\* the script ended with exception e raised at the given source line
Raised(e, line) == [status |-> "raised", error |-> e, line |-> line]

\* str.lower() on the strings that occur as gear values
Lower(s) ==
    CASE s = "Manual" -> "manual"
      [] s = "Auto" -> "auto"
      [] s = "AUTO" -> "auto"
      [] s = "Automatic" -> "automatic"
      [] s = "Automat" -> "automat"
      [] OTHER -> s

\* BasePrice with the 4-5 year band priced below the 6-7 year band
BasePrice_BandSwapped(age) ==
    IF age <= 1 THEN 350000
    ELSE IF age <= 3 THEN 250000
    ELSE IF age <= 5 THEN 130000
    ELSE IF age <= 7 THEN 140000
    ELSE IF age <= 10 THEN 100000
    ELSE 70000

BasePrice(age) ==
    IF age <= 1 THEN 350000
    ELSE IF age <= 3 THEN 250000
    ELSE IF age <= 5 THEN 180000
    ELSE IF age <= 7 THEN 140000
    ELSE IF age <= 10 THEN 100000
    ELSE 70000

\* km_penalty in tenths; negative when the low-mileage bonus applies
KmPenalty(km_diff, base_price) ==
    IF km_diff > 0
    THEN Min(km_diff * 5, base_price * 3)
    ELSE -Min(Abs(km_diff) * 3, (base_price * 15) \div 10)

\* trans_adjustment in tenths
TransAdjustment(gear, base_price) ==
    IF Lower(gear) \in {"auto", "automatic", "automat"}
    THEN (base_price * 5) \div 10
    ELSE 0

\* fuel_adjustments.get(fuel_type, 0) in tenths; fuel_type is any hashable value
FuelAdjustment(fuel_type, base_price) ==
    IF ~IsStr(fuel_type) THEN 0
    ELSE CASE fuel_type.s = "Electric" -> base_price * 2
           [] fuel_type.s = "Hybrid" -> base_price
           [] fuel_type.s = "Diesel" -> (base_price * 2) \div 10
           [] OTHER -> 0

\* equipment_adjustment in tenths
EquipmentAdjustment(equipment_score, base_price) ==
    Min(equipment_score * 20000, base_price)

\* ClampPrice without the lower bound
ClampPrice_NoFloor(estimated_price) ==
    Min(MaxPrice * 10, estimated_price)

\* max(30000, min(500000, estimated_price)) in tenths
ClampPrice(estimated_price) ==
    Max(MinPrice * 10, Min(MaxPrice * 10, estimated_price))

EstimatedPrice(year, km, gear, fuel_type, equipment_score) ==
    LET age == RefYear - year
        base_price == BasePrice(age)
        km_diff == km - age * ExpectedKmPerYear
    IN  ClampPrice(base_price * 10 - KmPenalty(km_diff, base_price)
                   + TransAdjustment(gear, base_price)
                   + FuelAdjustment(fuel_type, base_price)
                   + EquipmentAdjustment(equipment_score, base_price))

\* int(estimated_price * 0.87), int(estimated_price), int(estimated_price * 1.13)
QuantileP10(estimated_price) == (estimated_price * 87) \div 1000
QuantileP50(estimated_price) == estimated_price \div 10
QuantileP90(estimated_price) == (estimated_price * 113) \div 1000

\* round(n / d, 0) for d > 0, ties to even
Round(n, d) ==
    LET q == n \div d
        r == n % d
    IN  IF 2 * r < d THEN q
        ELSE IF 2 * r > d THEN q + 1
        ELSE IF q % 2 = 0 THEN q ELSE q + 1

\* km_factor as a multiple of 1/250000
RealisticKmFactor(km) == Max(50000, Min(225000, 250000 - km))
\* age_factor as a multiple of 1/30
RealisticAgeFactor(age) == Max(6, Min(27, 30 - 2 * age))
\* prob14 in hundredths: round(0.3 + km_factor * 0.25 + age_factor * 0.25, 2)
RealisticProb14(km, age) ==
    Round(900000 + 3 * RealisticKmFactor(km) + 25000 * RealisticAgeFactor(age), 30000)
\* prob30 in hundredths: round(min(0.95, prob14 + 0.20), 2)
RealisticProb30(prob14) == Min(95, prob14 + 20)

\* the exception the script ends with, or NoResult when it runs to the end
RealisticError(p) ==
    LET year == Get(p, "year", IntV(DefaultYear))
        km == Get(p, "km", IntV(DefaultKm))
        gear == Get(p, "gear", StrV("Manual"))
        equipment_score == Get(p, "equipment_len", IntV(0))
    IN  IF ~IsInt(year) THEN Raised("TypeError", 19)            \* age = 2025 - year
        ELSE IF ~IsInt(km) THEN Raised("TypeError", 36)         \* km_diff = km - expected_km
        ELSE IF ~IsStr(gear) THEN Raised("AttributeError", 47)  \* gear.lower()
        ELSE IF ~IsInt(equipment_score) THEN Raised("TypeError", 63)  \* equipment_score * 2000
        ELSE NoResult

RealisticEnv(p) ==
    LET year == Get(p, "year", IntV(DefaultYear)).i
        km == Get(p, "km", IntV(DefaultKm)).i
        gear == Get(p, "gear", StrV("Manual")).s
        fuel_type == Get(p, "fuel_type", StrV("Petrol"))
        equipment_score == Get(p, "equipment_len", IntV(0)).i
    IN  [age |-> RefYear - year,
         km |-> km,
         base_price |-> BasePrice(RefYear - year),
         equipment_adjustment |-> EquipmentAdjustment(equipment_score, BasePrice(RefYear - year)),
         estimated_price |-> EstimatedPrice(year, km, gear, fuel_type, equipment_score)]

RealisticResult(env) ==
    [status |-> "ok",
     p10 |-> QuantileP10(env.estimated_price),
     p50 |-> QuantileP50(env.estimated_price),
     p90 |-> QuantileP90(env.estimated_price),
     prob14 |-> RealisticProb14(env.km, env.age),
     prob30 |-> RealisticProb30(RealisticProb14(env.km, env.age))]

-----------------------------------------------------------------------------
(* predict_quantiles.py *)

DerivedNames == {"age", "km_per_year", "is_awd", "is_auto", "is_electric", "is_hybrid"}

\* the text pandas prints for one cell, and the dtype of its column
CellText(v) ==
    CASE v.t = "str" -> v.s
      [] v.t = "int" -> ToString(v.i)
      [] OTHER -> "None"
CellDtype(v) == IF v.t = "int" THEN "int64" ELSE "object"

\* str(column).lower() for the one-row column `name` of the frame
LowerStrOfColumn(name, v) ==
    "0    " \o Lower(CellText(v)) \o "\nname: " \o name \o ", dtype: " \o CellDtype(v)

\* 'Hybrid' in text, for the texts that occur as fuel types; the rest of
\* a printed column ("0", "Name: fuel_type, dtype: object") has no 'Hybrid'
ContainsHybrid(text) == text \in {"Hybrid", "Plug-in Hybrid", "Mild Hybrid"}

\* df['age'] = 2025 - df.get('year', 2018); arithmetic on an object column
\* skips None cells and leaves NaN there
QAge(p) ==
    LET year == Get(p, "year", IntV(DefaultYear))
    IN  IF IsInt(year) THEN IntV(RefYear - year.i) ELSE NaN

\* df['km_per_year'] = df.get('km', 100000) / df['age'].clip(lower=1)
QKmPerYear(p) ==
    LET km == Get(p, "km", IntV(DefaultKm))
        age == QAge(p)
    IN  IF IsInt(km) /\ IsInt(age) THEN FloatV(km.i, Max(age.i, 1)) ELSE NaN

\* int(df.get('driveline', 'FWD') == 'AWD')
QIsAwd(p) == IF Get(p, "driveline", StrV("FWD")) = StrV("AWD") THEN IntV(1) ELSE IntV(0)

\* int(str(df.get('gear', 'Manual')).lower() == 'auto')
QIsAuto(p) ==
    LET text == IF "gear" \in DOMAIN p
                THEN LowerStrOfColumn("gear", p["gear"])
                ELSE Lower("Manual")
    IN  IF text = "auto" THEN IntV(1) ELSE IntV(0)

\* int(df.get('fuel_type', 'Petrol') == 'Electric')
QIsElectric(p) == IF Get(p, "fuel_type", StrV("Petrol")) = StrV("Electric") THEN IntV(1) ELSE IntV(0)

\* int('Hybrid' in str(df.get('fuel_type', 'Petrol')))
QIsHybrid(p) ==
    IF ContainsHybrid(CellText(Get(p, "fuel_type", StrV("Petrol")))) THEN IntV(1) ELSE IntV(0)

QDerived(p) ==
    [age |-> QAge(p), km_per_year |-> QKmPerYear(p), is_awd |-> QIsAwd(p),
     is_auto |-> QIsAuto(p), is_electric |-> QIsElectric(p), is_hybrid |-> QIsHybrid(p)]

\* the exception raised while the derived columns are computed, or NoResult
QDeriveError(p) ==
    IF "year" \in DOMAIN p /\ p["year"].t \notin {"int", "null"} THEN Raised("TypeError", 19)
    ELSE IF "km" \in DOMAIN p /\ p["km"].t \notin {"int", "null"} THEN Raised("TypeError", 20)
    ELSE NoResult

\* the cell of column f once the derived columns are set and every feature
\* that is not a column has been added as 0
QColumn(p, f) ==
    IF f \in DerivedNames THEN QDerived(p)[f]
    ELSE IF f \in DOMAIN p THEN p[f]
    ELSE IntV(0)

\* FillNa that leaves missing values in place
FillNa_Keep(v) == v

\* fillna(0)
FillNa(v) == IF v.t \in {"null", "nan"} THEN IntV(0) ELSE v

\* X = df[features].fillna(0)
QRow(p, fs) == [i \in 1..Len(fs) |-> [name |-> fs[i], val |-> FillNa(QColumn(p, fs[i]))]]

\* band = max(1, p90 - p10)
Band(p10, p90) == Max(1, p90 - p10)
\* band_factor as a multiple of 1/500000
BandFactor(band) == Max(50000, Min(450000, 500000 - band))
\* km_factor as a multiple of 1/300000
QKmFactor(km_value) == Max(30000, Min(270000, 300000 - km_value))
\* age_factor as a multiple of 1/30
QAgeFactor(age_value) == Max(3, Min(27, 2 * (age_value - 2010)))
\* the unit of the probabilities below: 1.0 is ProbOne
ProbOne == 30 * 500000
\* prob14 = max(0.15, min(0.85, 0.3 + band_factor*0.3 + km_factor*0.2 + age_factor*0.2))
QProb14(band, km_value, age_value) ==
    Max((15 * ProbOne) \div 100,
        Min((85 * ProbOne) \div 100,
            (30 * ProbOne) \div 100 + 9 * BandFactor(band) + 10 * QKmFactor(km_value)
              + 100000 * QAgeFactor(age_value)))
\* QProb30 without the cap at 0.95
QProb30_NoCap(prob14) == prob14 + (15 * ProbOne) \div 100

\* prob30 = min(0.95, prob14 + 0.15)
QProb30(prob14) == Min((95 * ProbOne) \div 100, prob14 + (15 * ProbOne) \div 100)

\* the exception raised after the regressors ran, or NoResult
QProbError(p) ==
    IF ~IsInt(Get(p, "km", IntV(DefaultKm))) THEN Raised("TypeError", 47)         \* km_value / 300000
    ELSE IF ~IsInt(Get(p, "year", IntV(DefaultYear))) THEN Raised("TypeError", 48)  \* age_value - 2010
    ELSE NoResult

QResult(p, out) ==
    LET band == Band(out[1], out[3])
        km_value == Get(p, "km", IntV(DefaultKm)).i
        age_value == Get(p, "year", IntV(DefaultYear)).i
        prob14 == QProb14(band, km_value, age_value)
    IN  [status |-> "ok", p10 |-> out[1], p50 |-> out[2], p90 |-> out[3],
         prob14 |-> Round(prob14, ProbOne \div 100),
         prob30 |-> Round(QProb30(prob14), ProbOne \div 100)]

-----------------------------------------------------------------------------
(* The predictor process: the caller writes one payload to stdin and runs   *)
(* one of the two scripts on it.                                            *)

\* features of train_quantiles.py, the list every artifact it writes carries
TrainerFeatures ==
    <<"km", "year", "age", "km_per_year", "equipment_len", "is_awd", "is_auto",
      "is_electric", "is_hybrid", "season_month", "supply_density">>

\* feature lists of the artifacts a predictor may find at the model path
ArtifactFeatureLists ==
    {TrainerFeatures,
     <<"is_auto", "doors", "km", "equipment_len">>,
     <<"year", "is_hybrid", "age", "km_per_year", "is_awd", "is_electric">>}

\* raw outputs <<p10, p50, p90>> of the three regressors
RegressorOutputs ==
    {<<150000, 200000, 260000>>, <<260000, 200000, 150000>>,
     <<200000, 200000, 200000>>, <<0, 300000, 900000>>}

Years == MinYear..MaxYear
KmValues == {0, 20000, 100000, 136000, 180000, 300000}

PayloadsOver(Y, K, G, D, F, E, Q) ==
    {PayloadOf(c) : c \in [year : Y, km : K, gear : G, driveline : D,
                           fuel_type : F, equipment_len : E, equipment : Q]}

\* payloads given to predict_realistic.py alone
RealisticPayloads ==
    PayloadsOver({Absent, Null, StrV("n/a")} \cup {IntV(y) : y \in Years},
                 {Absent, Null} \cup {IntV(k) : k \in KmValues},
                 {Absent, Null, StrV("Manual"), StrV("Auto"), StrV("Automatic")},
                 {Absent},
                 {Absent, Null, StrV("Petrol"), StrV("Electric"), StrV("Hybrid"), StrV("Diesel")},
                 {Absent, Null, IntV(-20), IntV(0), IntV(5), IntV(20)},
                 {Absent} \cup {ListV(n) : n \in 0..MaxEquip})

\* payloads given to either predictor
Payloads ==
    PayloadsOver({Absent, Null, StrV("n/a"), IntV(MinYear), IntV(DefaultYear), IntV(MaxYear)},
                 {Absent, Null, IntV(0), IntV(100000), IntV(300000)},
                 {Absent, Null, StrV("Manual"), StrV("Auto"), StrV("auto")},
                 {Absent, StrV("FWD"), StrV("AWD")},
                 {Absent, StrV("Petrol"), StrV("Electric"), StrV("Plug-in Hybrid")},
                 {Absent, Null, IntV(5)},
                 {Absent} \cup {ListV(n) : n \in 0..MaxEquip})

EmptyPayload == PayloadOf([year |-> Absent])

PredInit ==
    /\ pc = "stdin"
    /\ payload = EmptyPayload
    /\ h_env = NoResult
    /\ h_result = NoResult
    /\ features = <<>>
    /\ X = <<>>
    /\ q_result = NoResult

\* payload = json.loads(sys.stdin.read())
ReadPayload(P) ==
    /\ pc = "stdin"
    /\ \E p \in P : payload' = p
    /\ pc' = "read"
    /\ UNCHANGED <<h_env, h_result, features, X, q_result>>

\* predict_realistic.py from the first line after the read to the last
PredictRealistic ==
    /\ pc = "read"
    /\ pc' = "realistic"
    /\ IF RealisticError(payload) # NoResult
       THEN /\ h_result' = RealisticError(payload)
            /\ h_env' = NoResult
       ELSE /\ h_env' = RealisticEnv(payload)
            /\ h_result' = RealisticResult(RealisticEnv(payload))
    /\ UNCHANGED <<payload, features, X, q_result>>

\* predict_quantiles.py from the first line after the read to the last, with
\* the artifact it loaded and the values its regressors return
PredictQuantiles ==
    /\ pc = "read"
    /\ pc' = "quantiles"
    /\ \E fs \in ArtifactFeatureLists, out \in RegressorOutputs :
          /\ features' = fs
          /\ IF QDeriveError(payload) # NoResult
             THEN /\ X' = <<>>
                  /\ q_result' = QDeriveError(payload)
             ELSE /\ X' = QRow(payload, fs)
                  /\ q_result' = IF QProbError(payload) # NoResult
                                 THEN QProbError(payload)
                                 ELSE QResult(payload, out)
    /\ UNCHANGED <<payload, h_env, h_result>>

-----------------------------------------------------------------------------
(* train_quantiles.py *)

SeasonMonth == 1
SupplyDensity == 12

\* records of ./seed/finn_sample.json
TrainRecords ==
    {[year |-> IntV(2020), km |-> IntV(60000), gear |-> StrV("Auto"), driveline |-> StrV("AWD"),
      fuel_type |-> StrV("Electric"), equipment |-> ListV(2)],
     [year |-> IntV(2012), km |-> IntV(180000), gear |-> StrV("Manual"), driveline |-> StrV("FWD"),
      fuel_type |-> StrV("Plug-in Hybrid"), equipment |-> Null]}

Datasets == UNION {[1..n -> TrainRecords] : n \in 0..MaxRecords}

\* the engineered columns of one record
TDerived(rec) ==
    LET age == IF IsInt(rec.year) THEN IntV(RefYear - rec.year.i) ELSE NaN
    IN  [equipment_len |-> IF rec.equipment.t = "list" THEN IntV(rec.equipment.n) ELSE IntV(0),
         is_awd |-> IF rec.driveline = StrV("AWD") THEN IntV(1) ELSE IntV(0),
         is_auto |-> IF IsStr(rec.gear) /\ Lower(rec.gear.s) = "auto" THEN IntV(1) ELSE IntV(0),
         is_electric |-> IF rec.fuel_type = StrV("Electric") THEN IntV(1) ELSE IntV(0),
         is_hybrid |-> IF IsStr(rec.fuel_type) /\ ContainsHybrid(rec.fuel_type.s)
                       THEN IntV(1) ELSE IntV(0),
         age |-> age,
         km_per_year |-> IF IsInt(rec.km) /\ IsInt(age)
                         THEN FloatV(rec.km.i, Max(age.i, 1)) ELSE NaN,
         season_month |-> IntV(SeasonMonth),
         supply_density |-> IntV(SupplyDensity)]

TColumn(rec, f) ==
    IF f \in DOMAIN TDerived(rec) THEN TDerived(rec)[f] ELSE rec[f]

\* one row of X = df[features].fillna(0)
TRow(rec) ==
    [i \in 1..Len(TrainerFeatures) |->
        [name |-> TrainerFeatures[i], val |-> FillNa(TColumn(rec, TrainerFeatures[i]))]]

\* sizes train_test_split(test_size=0.3) gives n rows: ceil(0.3 n) go to validation
NTest(n) == (3 * n + 9) \div 10
NTrain(n) == n - NTest(n)

NoModel == [status |-> "none"]
\* a regressor fitted for quantile q on the rows `train` of X
Fitted(q, r, train, fs) == [quantile |-> q, run |-> r, train |-> train, features |-> fs]

\* the chunks joblib.dump writes for {'p10':..., 'p50':..., 'p90':..., 'features':...}
Chunks(p10, p50, p90, fs) ==
    <<[part |-> "p10", val |-> p10], [part |-> "p50", val |-> p50],
      [part |-> "p90", val |-> p90], [part |-> "features", val |-> fs]>>

\* the artifact an earlier execution of the trainer left at the model path
PreviousArtifact ==
    Chunks(Fitted(10, 0, {1}, TrainerFeatures), Fitted(50, 0, {1}, TrainerFeatures),
           Fitted(90, 0, {1}, TrainerFeatures), TrainerFeatures)

TrainInit ==
    /\ file = PreviousArtifact
    /\ run = 1
    /\ tpc = "start"
    /\ t_df = <<>>
    /\ t_X = <<>>
    /\ t_train = {}
    /\ m_p10 = NoModel
    /\ m_p50 = NoModel
    /\ m_p90 = NoModel

LoadInit ==
    /\ lpc = "start"
    /\ l_buf = <<>>

\* lines 13-35: read the records, engineer the columns, select X
TLoadData ==
    /\ tpc = "start"
    /\ \E d \in Datasets :
          /\ t_df' = d
          /\ IF Len(d) = 0
             THEN /\ tpc' = "failed"     \* df['equipment'] raises KeyError
                  /\ t_X' = <<>>
             ELSE /\ tpc' = "engineered"
                  /\ t_X' = [i \in 1..Len(d) |-> TRow(d[i])]
    /\ UNCHANGED <<file, run, t_train, m_p10, m_p50, m_p90>>

\* line 38: train_test_split
TSplit ==
    /\ tpc = "engineered"
    /\ IF NTrain(Len(t_X)) = 0
       THEN /\ tpc' = "failed"           \* ValueError: the train set would be empty
            /\ t_train' = {}
       ELSE /\ tpc' = "split"
            /\ \E S \in SUBSET (1..Len(t_X)) :
                  /\ Cardinality(S) = NTrain(Len(t_X))
                  /\ t_train' = S
    /\ UNCHANGED <<file, run, t_df, t_X, m_p10, m_p50, m_p90>>

\* fit_quantile(alpha): m.fit(X_train, y_train) returns the model or raises
FitQuantile(q, ok) ==
    IF ok THEN Fitted(q, run, t_train, TrainerFeatures) ELSE NoModel

\* line 63
TFitP10 ==
    /\ tpc = "split"
    /\ \E ok \in BOOLEAN :
          /\ m_p10' = FitQuantile(10, ok)
          /\ tpc' = IF ok THEN "fit10" ELSE "failed"
    /\ UNCHANGED <<file, run, t_df, t_X, t_train, m_p50, m_p90>>

\* line 64
TFitP50 ==
    /\ tpc = "fit10"
    /\ \E ok \in BOOLEAN :
          /\ m_p50' = FitQuantile(50, ok)
          /\ tpc' = IF ok THEN "fit50" ELSE "failed"
    /\ UNCHANGED <<file, run, t_df, t_X, t_train, m_p10, m_p90>>

\* AfterFitP90 with the exception of the fit swallowed
AfterFitP90_Swallowed(ok) == "fit90"

\* where the script is after line 65, given whether the fit succeeded
AfterFitP90(ok) == IF ok THEN "fit90" ELSE "failed"

\* line 65
TFitP90 ==
    /\ tpc = "fit50"
    /\ \E ok \in BOOLEAN :
          /\ m_p90' = FitQuantile(90, ok)
          /\ tpc' = AfterFitP90(ok)
    /\ UNCHANGED <<file, run, t_df, t_X, t_train, m_p10, m_p50>>

\* line 70: joblib.dump opens the model path for writing, which empties it
TDumpOpen ==
    /\ tpc = "fit90"
    /\ file' = <<>>
    /\ tpc' = "dumping"
    /\ UNCHANGED <<run, t_df, t_X, t_train, m_p10, m_p50, m_p90>>

\* lines 70-75: joblib.dump writes the next chunk; the file is closed after the last
TDumpWrite ==
    /\ tpc = "dumping"
    /\ LET all == Chunks(m_p10, m_p50, m_p90, TrainerFeatures)
       IN  /\ file' = Append(file, all[Len(file) + 1])
           /\ tpc' = IF Len(file) + 1 = Len(all) THEN "done" ELSE "dumping"
    /\ UNCHANGED <<run, t_df, t_X, t_train, m_p10, m_p50, m_p90>>

\* the trainer is executed again
TNextRun ==
    /\ tpc \in {"done", "failed"}
    /\ run < MaxRuns
    /\ run' = run + 1
    /\ tpc' = "start"
    /\ t_df' = <<>>
    /\ t_X' = <<>>
    /\ t_train' = {}
    /\ m_p10' = NoModel
    /\ m_p50' = NoModel
    /\ m_p90' = NoModel
    /\ UNCHANGED file

-----------------------------------------------------------------------------
(* predict_quantiles.py, line 9: joblib.load of the model path *)

\* joblib.load opens the model path
LoadOpen ==
    /\ lpc = "start"
    /\ lpc' = "reading"
    /\ UNCHANGED l_buf

\* the unpickler reads the next chunk at its offset, or meets the end of the file
LoadRead ==
    /\ lpc = "reading"
    /\ IF Len(l_buf) < Len(file)
       THEN /\ l_buf' = Append(l_buf, file[Len(l_buf) + 1])
            /\ lpc' = IF Len(l_buf) + 1 = 4 THEN "loaded" ELSE "reading"
       ELSE /\ lpc' = "corrupt"          \* EOFError
            /\ UNCHANGED l_buf

-----------------------------------------------------------------------------
(* Specifications *)

Init == PredInit /\ TrainInit /\ LoadInit

\* either predictor on one payload
Next ==
    \/ ReadPayload(Payloads) /\ UNCHANGED <<trainVars, loadVars>>
    \/ PredictRealistic /\ UNCHANGED <<trainVars, loadVars>>
    \/ PredictQuantiles /\ UNCHANGED <<trainVars, loadVars>>

Spec == Init /\ [][Next]_vars

\* the heuristic predictor over every year of the model
NextRealistic ==
    \/ ReadPayload(RealisticPayloads) /\ UNCHANGED <<trainVars, loadVars>>
    \/ PredictRealistic /\ UNCHANGED <<trainVars, loadVars>>

SpecRealistic == Init /\ [][NextRealistic]_vars

\* the trainer next to a predictor process that loads the artifact
NextArtifact ==
    \/ TLoadData /\ UNCHANGED <<predVars, loadVars>>
    \/ TSplit /\ UNCHANGED <<predVars, loadVars>>
    \/ TFitP10 /\ UNCHANGED <<predVars, loadVars>>
    \/ TFitP50 /\ UNCHANGED <<predVars, loadVars>>
    \/ TFitP90 /\ UNCHANGED <<predVars, loadVars>>
    \/ TDumpOpen /\ UNCHANGED <<predVars, loadVars>>
    \/ TDumpWrite /\ UNCHANGED <<predVars, loadVars>>
    \/ TNextRun /\ UNCHANGED <<predVars, loadVars>>
    \/ LoadOpen /\ UNCHANGED <<predVars, trainVars>>
    \/ LoadRead /\ UNCHANGED <<predVars, trainVars>>

SpecArtifact == Init /\ [][NextArtifact]_vars

-----------------------------------------------------------------------------
(* Properties *)

IntOrAbsent(p, k) == k \in DOMAIN p => IsInt(p[k])
StrOrAbsent(p, k) == k \in DOMAIN p => IsStr(p[k])

\* integer year, non-negative km, string gear, string fuel_type, integer equipment_len
ValidListing(p) ==
    /\ IntOrAbsent(p, "year")
    /\ IntOrAbsent(p, "km") /\ Get(p, "km", IntV(0)).i >= 0
    /\ StrOrAbsent(p, "gear")
    /\ StrOrAbsent(p, "fuel_type")
    /\ IntOrAbsent(p, "equipment_len")

RealisticRan == pc = "realistic"
QuantilesRan == pc = "quantiles"

\* C1: for every valid listing the heuristic predictor returns a result with
\* 30000*0.87 <= p10 <= p50 <= p90 <= 500000*1.13, where the three quantiles
\* are the floors of 0.87, 1 and 1.13 times the estimated price, itself
\* within [30000, 500000].
C1_QuantileBounds ==
    (RealisticRan /\ ValidListing(payload)) =>
        /\ h_result.status = "ok"
        /\ h_env.estimated_price >= MinPrice * 10
        /\ h_env.estimated_price <= MaxPrice * 10
        /\ (MinPrice * 87) \div 100 <= h_result.p10
        /\ h_result.p10 <= h_result.p50
        /\ h_result.p50 <= h_result.p90
        /\ h_result.p90 <= (MaxPrice * 113) \div 100
        /\ 1000 * h_result.p10 <= 87 * h_env.estimated_price
        /\ 87 * h_env.estimated_price < 1000 * (h_result.p10 + 1)
        /\ 10 * h_result.p50 <= h_env.estimated_price
        /\ h_env.estimated_price < 10 * (h_result.p50 + 1)
        /\ 1000 * h_result.p90 <= 113 * h_env.estimated_price
        /\ 113 * h_env.estimated_price < 1000 * (h_result.p90 + 1)

\* a valid listing whose estimated price was raised to the floor of 30000
C1_Witness ==
    /\ RealisticRan /\ ValidListing(payload)
    /\ h_result.status = "ok"
    /\ h_result.p10 = 26100
    /\ h_env.equipment_adjustment < 0

ProbsOrdered(r) ==
    /\ 15 <= r.prob14
    /\ r.prob14 <= r.prob30
    /\ r.prob30 <= 95

\* C2: whenever either predictor returns a result, its rounded probabilities
\* satisfy 0.15 <= prob14 <= prob30 <= 0.95, in the learned predictor also
\* when the regressors' quantiles cross.
C2_ProbabilitiesOrdered ==
    /\ (RealisticRan /\ h_result.status = "ok") => ProbsOrdered(h_result)
    /\ (QuantilesRan /\ q_result.status = "ok") => ProbsOrdered(q_result)

\* the learned predictor returned a result from crossing quantiles and
\* prob30 reached its cap
C2_Witness ==
    /\ QuantilesRan /\ q_result.status = "ok"
    /\ q_result.p90 < q_result.p10
    /\ q_result.prob30 = 95

\* the documented defaults, written out as a payload
DefaultPayload ==
    [year |-> IntV(2018), km |-> IntV(100000), gear |-> StrV("Manual"),
     driveline |-> StrV("FWD"), fuel_type |-> StrV("Petrol"), equipment_len |-> IntV(0)]

\* C3: on the empty mapping neither predictor raises and every value it
\* computes, the 'year' and 'km' entries of the learned predictor's feature
\* row included, is the value computed from the documented defaults.
C3_EmptyUsesDefaults ==
    /\ (RealisticRan /\ payload = EmptyPayload) =>
          h_result = RealisticResult(RealisticEnv(DefaultPayload))
    /\ (QuantilesRan /\ payload = EmptyPayload) =>
          /\ q_result.status = "ok"
          /\ X = QRow(DefaultPayload, features)

\* the type each field must have
WellTyped(k, v) ==
    CASE k \in {"year", "km", "equipment_len"} -> IsInt(v)
      [] k \in {"gear", "driveline", "fuel_type"} -> IsStr(v)
      [] OTHER -> TRUE

\* the payload with its malformed fields removed, so that they take their defaults
WithoutMalformed(p) ==
    [k \in {k \in DOMAIN p : WellTyped(k, p[k])} |-> p[k]]

\* C4: a present but malformed field never makes a predictor raise; the
\* predictor returns the result it returns when the field is left out.
C4_MalformedDefaults ==
    /\ RealisticRan =>
          /\ h_result.status = "ok"
          /\ h_result = RealisticResult(RealisticEnv(WithoutMalformed(payload)))
    /\ QuantilesRan =>
          /\ q_result.status = "ok"
          /\ X = QRow(WithoutMalformed(payload), features)

AgeBand(age) ==
    IF age <= 1 THEN 0
    ELSE IF age <= 3 THEN 1
    ELSE IF age <= 5 THEN 2
    ELSE IF age <= 7 THEN 3
    ELSE IF age <= 10 THEN 4
    ELSE 5

\* p50 of the heuristic predictor for payload p with its year replaced by y
P50ForYear(p, y) ==
    RealisticResult(RealisticEnv(
        [k \in DOMAIN p \cup {"year"} |-> IF k = "year" THEN IntV(y) ELSE p[k]])).p50

SameRun(chunks) ==
    \E r \in 0..MaxRuns :
        /\ \A i \in 1..3 : chunks[i].val # NoModel /\ chunks[i].val.run = r
        /\ \A i \in 1..3 : chunks[i].val.features = chunks[4].val

\* C6: a predictor that loads the model path while the trainer replaces the
\* artifact obtains the complete previous or the complete new artifact: the
\* load never meets a partially written file and never returns parts of two
\* training runs.
C6_AtomicSwap ==
    /\ lpc # "corrupt"
    /\ lpc = "loaded" => (Len(l_buf) = 4 /\ SameRun(l_buf))

\* the training record with the attributes of payload p
RecordOf(p) ==
    [year |-> p["year"], km |-> p["km"], gear |-> p["gear"],
     driveline |-> p["driveline"], fuel_type |-> p["fuel_type"],
     equipment |-> Get(p, "equipment", Null)]

HasListingFields(p) ==
    /\ {"year", "km", "gear", "driveline", "fuel_type"} \subseteq DOMAIN p
    /\ \A k \in {"year", "km", "gear", "driveline", "fuel_type"} : WellTyped(k, p[k])

\* C7: each derived feature in the row of the learned predictor equals the
\* value the trainer engineers for a record with the same year, km, gear,
\* driveline and fuel_type.
C7_SameDerivation ==
    (QuantilesRan /\ X # <<>> /\ HasListingFields(payload)) =>
        \A i \in DOMAIN X :
            X[i].name \in DerivedNames =>
                X[i].val = FillNa(TDerived(RecordOf(payload))[X[i].name])

\* the derived columns were computed without an exception
QuantilesDerived == QuantilesRan /\ (q_result.status = "ok" \/ q_result.line > 32)

\* C8: the row handed to the regressors has exactly the artifact's feature
\* names in the artifact's order; a feature neither the payload nor the
\* derivation supplies is 0, a missing value is 0, and the row is always
\* built once the derived columns exist.
C8_Projection ==
    QuantilesDerived =>
        /\ Len(features) > 0
        /\ Len(X) = Len(features)
        /\ \A i \in DOMAIN X :
              /\ X[i].name = features[i]
              /\ X[i].val.t \notin {"null", "nan", "absent"}
              /\ (features[i] \notin DOMAIN payload \cup DerivedNames) => X[i].val = IntV(0)
              /\ (features[i] \in DOMAIN payload \ DerivedNames /\ payload[features[i]] = Null)
                    => X[i].val = IntV(0)
              /\ (features[i] \in DOMAIN payload \ DerivedNames /\ IsInt(payload[features[i]]))
                    => X[i].val = payload[features[i]]

\* a row with a feature the payload does not supply and one whose value is missing
C8_Witness ==
    /\ QuantilesDerived
    /\ \E i \in DOMAIN X : X[i].name = "doors" /\ X[i].val = IntV(0)
    /\ "equipment_len" \in DOMAIN payload /\ payload["equipment_len"] = Null
    /\ \E i \in DOMAIN X : X[i].name = "equipment_len" /\ X[i].val = IntV(0)
    /\ "gear" \in DOMAIN payload

\* equipment_len as documented: the number of items of 'equipment' when it
\* is a sequence, else the literal 'equipment_len', else 0
EquipmentLen(p) ==
    IF "equipment" \in DOMAIN p /\ p["equipment"].t = "list" THEN IntV(p["equipment"].n)
    ELSE Get(p, "equipment_len", IntV(0))

\* C9: in both predictors equipment_len is the number of items of
\* 'equipment' when the payload supplies a sequence, else the literal
\* 'equipment_len', else 0.
C9_EquipmentLen ==
    /\ (RealisticRan /\ h_result.status = "ok" /\ IsInt(EquipmentLen(payload))) =>
          h_env.equipment_adjustment =
              Min(EquipmentLen(payload).i * 20000, h_env.base_price)
    /\ QuantilesDerived =>
          \A i \in DOMAIN X :
              X[i].name = "equipment_len" => X[i].val = FillNa(EquipmentLen(payload))

IsFitted(m, q) ==
    /\ m # NoModel
    /\ m.quantile = q
    /\ m.run = run
    /\ m.train = t_train
    /\ m.features = TrainerFeatures

\* C10: the trainer writes to the model path only after all three
\* regressors were fitted on the same training partition and feature list;
\* a run that failed wrote nothing, and a finished run left exactly the
\* three fitted regressors and that feature list.
C10_DumpAfterFits ==
    /\ tpc \in {"dumping", "done"} =>
          /\ IsFitted(m_p10, 10) /\ IsFitted(m_p50, 50) /\ IsFitted(m_p90, 90)
          /\ t_train # {}
    /\ tpc = "failed" =>
          /\ Len(file) = 4
          /\ \A i \in 1..3 : file[i].val # NoModel /\ file[i].val.run < run
    /\ tpc = "done" =>
          /\ file = Chunks(m_p10, m_p50, m_p90, TrainerFeatures)
          /\ SameRun(file)
    /\ \A i \in DOMAIN file : file[i].part # "features" => file[i].val # NoModel

\* a second run that failed in its last fit, after the first run had
\* replaced the artifact
C10_Witness ==
    /\ run = 2
    /\ tpc = "failed"
    /\ m_p50 # NoModel
    /\ m_p90 = NoModel
    /\ file[1].val.run = 1

====
